---- MODULE Spec2Model ----
(***************************************************************************)
(* A model of fft.py: the recursive kernel _fft, the power-of-two test     *)
(* is_power_2, and the two entry points fft (pad, then evaluate) and ifft  *)
(* (assert, evaluate with the conjugate root, divide by the length).       *)
(*                                                                         *)
(* Complex numbers are exact: every value the program handles here lies in *)
(* the field generated by a primitive Order-th root of unity z, Order a    *)
(* power of two, so a number is a vector of H = Order/2 integer            *)
(* coordinates over the basis 1, z, ..., z^(H-1) (with z^H = -1) and a     *)
(* positive common denominator, kept in lowest terms.                      *)
(***************************************************************************)
EXTENDS Integers, Sequences, FiniteSets, TLC

\* Longest input sequence a caller supplies.
MaxLen == 8

\* Deepest call stack the interpreter allows before it raises RecursionError.
RecursionLimit == 7

(***************************************************************************)
(* Exact complex arithmetic                                                *)
(***************************************************************************)

RECURSIVE NextPow2From(_, _)
NextPow2From(m, n) == IF m >= n THEN m ELSE NextPow2From(2 * m, n)

\* Order of the root of unity the number field is built on: the largest
\* length the kernel can be handed (MaxLen, padded), and at least 4 so that
\* the imaginary unit is a basis power.
Order == NextPow2From(4, MaxLen)

H == Order \div 2

Abs(x) == IF x < 0 THEN -x ELSE x

\* The tuple <<f[k], ..., f[n]>>, and the function f on 1..n as a tuple.
RECURSIVE TupleFrom(_, _, _)
TupleFrom(f, k, n) == IF k > n THEN <<>> ELSE <<f[k]>> \o TupleFrom(f, k + 1, n)

Tuple(f, n) == TupleFrom(f, 1, n)

RECURSIVE Gcd(_, _)
Gcd(a, b) == IF b = 0 THEN a ELSE Gcd(b, a % b)

RECURSIVE GcdSeq(_, _, _)
GcdSeq(n, k, g) == IF k > Len(n) \/ g = 1 THEN g ELSE GcdSeq(n, k + 1, Gcd(g, Abs(n[k])))

\* Lowest terms, positive denominator.
Norm(x) ==
    IF x.d = 1 THEN x
    ELSE LET g == GcdSeq(x.n, 1, x.d)
         IN  [n |-> Tuple([k \in 1..H |-> x.n[k] \div g], H), d |-> x.d \div g]

\* The complex number re + im*j.
Cx(re, im) ==
    [n |-> Tuple([k \in 1..H |-> IF k = 1 THEN re ELSE IF k = (Order \div 4) + 1 THEN im ELSE 0], H),
     d |-> 1]

Zero == Cx(0, 0)
One == Cx(1, 0)

\* z^k for any integer k.
Unit(k) ==
    LET r == k % Order
    IN  [n |-> Tuple([m \in 1..H |-> IF r < H THEN (IF m = r + 1 THEN 1 ELSE 0)
                                      ELSE (IF m = r - H + 1 THEN -1 ELSE 0)], H),
         d |-> 1]

Add(a, b) ==
    IF a.d = 1 /\ b.d = 1
    THEN [n |-> Tuple([k \in 1..H |-> a.n[k] + b.n[k]], H), d |-> 1]
    ELSE Norm([n |-> Tuple([k \in 1..H |-> a.n[k] * b.d + b.n[k] * a.d], H), d |-> a.d * b.d])

Neg(a) == [n |-> Tuple([k \in 1..H |-> -a.n[k]], H), d |-> a.d]

Sub(a, b) == Add(a, Neg(b))

\* Coordinate m (0-based) of the product of the numerators: the terms
\* a_i * b_j with i + j = m, minus those with i + j = m + H (z^H = -1).
RECURSIVE MulCoord(_, _, _, _)
MulCoord(a, b, m, i) ==
    IF i >= H THEN 0
    ELSE (IF m - i >= 0 THEN a[i + 1] * b[m - i + 1] ELSE -(a[i + 1] * b[m - i + H + 1]))
         + MulCoord(a, b, m, i + 1)

Mul(a, b) ==
    Norm([n |-> Tuple([k \in 1..H |-> MulCoord(a.n, b.n, k - 1, 0)], H), d |-> a.d * b.d])

\* w ** i for an integer i >= 0.
RECURSIVE Pow(_, _)
Pow(w, i) == IF i = 0 THEN One ELSE Mul(w, Pow(w, i - 1))

\* y / n for an integer n # 0.
DivInt(y, n) == Norm([n |-> y.n, d |-> y.d * n])

\* math.e ** (sign * 2 * math.pi * 1j / degree), for degree a power of two
\* dividing Order.
Omega(degree, sign) == Unit(sign * (Order \div degree))

(***************************************************************************)
(* Pure helpers of the program                                             *)
(***************************************************************************)

\* Python's a & b on unbounded two's-complement integers.
RECURSIVE BitAnd(_, _)
BitAnd(a, b) ==
    IF a = 0 \/ b = 0 THEN 0
    ELSE IF a = -1 THEN b
    ELSE IF b = -1 THEN a
    ELSE (a % 2) * (b % 2) + 2 * BitAnd(a \div 2, b \div 2)

is_power_2_even(x) == x % 2 = 0

is_power_2(x) == BitAnd(x, x - 1) = 0

\* p[start::2], start in {0, 1}.
Slice_contiguous(p, start) == SubSeq(p, start + 1, Len(p))

Slice(p, start) ==
    LET n == (Len(p) - start + 1) \div 2
    IN  Tuple([k \in 1..n |-> p[start + 2 * (k - 1) + 1]], n)

\* [0] * degree
Zeros(degree) == Tuple([k \in 1..degree |-> Zero], degree)

\* The root handed to both recursive calls: w itself.
ChildRoot(w) == w

\* odd_term = (w ** i) * q_odd[i]
OddTerm(w, i, q_odd) == Mul(Pow(w, i), q_odd[i + 1])

\* One pass of the combine loop's body: q with q[i] and q[i + half_degree] set.
Combine(q, q_even, q_odd, w, i, half_degree) ==
    LET odd_term == OddTerm(w, i, q_odd)
    IN  [q EXCEPT ![i + 1] = Add(q_even[i + 1], odd_term),
                  ![i + half_degree + 1] = Sub(q_even[i + 1], odd_term)]

Scale_none(ys, degree) == ys

\* [y / degree for y in ys]
Scale(ys, degree) == Tuple([k \in 1..Len(ys) |-> DivInt(ys[k], degree)], Len(ys))

(***************************************************************************)
(* Inputs                                                                  *)
(***************************************************************************)

\* Entries of the generated input sequences.
Vals == {Zero, One}

\* The sequences the README's examples hand to fft and ifft (cmd_evaluate
\* reverses its arguments into ascending-degree order), and small
\* integer-valued ones.
Scenarios ==
    { <<Cx(-1, 0), Cx(-1, 0), Cx(1, 0), Cx(1, 0)>>,
      <<Cx(0, 1), Cx(0, 1), Cx(0, 1), Cx(0, 1)>>,
      <<Cx(0, 0), Cx(-2, -2), Cx(0, 0), Cx(-2, 2)>>,
      <<Cx(0, 4), Cx(0, 0), Cx(0, 0), Cx(0, 0)>>,
      <<Cx(4, 0), Cx(0, 0), Cx(0, 0), Cx(0, 0)>>,
      <<Cx(3, 0), Cx(2, 0), Cx(1, 0), Cx(0, 0)>>,
      <<Cx(5, 0), Cx(2, 0), Cx(1, 0)>> }

Inputs == UNION {[1..n -> Vals] : n \in 0..MaxLen} \cup Scenarios

\* The roots a direct caller of the kernel passes.
KernelRoots == {Omega(Order, 1)}

(***************************************************************************)
(* State                                                                   *)
(***************************************************************************)

VARIABLES
    pc,      \* where the running call stands: "idle", "fft_while", "ifft_assert",
             \* "ifft_root", "kernel", "done", "failed"
    op,      \* the function the caller invoked: "fft", "ifft", "_fft", or "none"
    arg,     \* the caller's list object, as it stands now
    arg0,    \* the contents of that list when the call was made
    degree,  \* the local `degree` of fft / ifft
    stack,   \* the frames of _fft, outermost first
    result,  \* the value returned (meaningful when pc = "done")
    err,     \* the exception raised (meaningful when pc = "failed")
    prev,    \* the call that completed before this one, if any
    depth,   \* deepest nesting of recursive _fft calls seen in this call
    steps    \* steps _fft has taken in this call

vars == <<pc, op, arg, arg0, degree, stack, result, err, prev, depth, steps>>

NoCall == [op |-> "none", arg0 |-> <<>>, result |-> <<>>]

\* A fresh activation of _fft(p, w).
Frame(p, w) ==
    [p |-> p, w |-> w, pc |-> "enter", q_even |-> <<>>, q_odd |-> <<>>, q |-> <<>>, i |-> 0]

Top == stack[Len(stack)]

Max(a, b) == IF a >= b THEN a ELSE b

Init ==
    /\ pc = "idle"
    /\ op = "none"
    /\ arg = <<>>
    /\ arg0 = <<>>
    /\ degree = 0
    /\ stack = <<>>
    /\ result = <<>>
    /\ err = "none"
    /\ prev = NoCall
    /\ depth = 0
    /\ steps = 0

(***************************************************************************)
(* fft                                                                     *)
(***************************************************************************)

\* A call of `name` on the list xs begins: degree = len(xs).
Enter(name, xs, next) ==
    /\ op' = name
    /\ arg' = xs
    /\ arg0' = xs
    /\ degree' = Len(xs)
    /\ pc' = next
    /\ result' = <<>>
    /\ err' = "none"
    /\ depth' = 0
    /\ steps' = 0

CallFft(cs) ==
    /\ pc = "idle"
    /\ Enter("fft", cs, "fft_while")
    /\ UNCHANGED <<stack, prev>>

\* The list the loop body leaves behind: cs.append(0).
PadPrepend(cs) == <<Zero>> \o cs

Pad(cs) == Append(cs, Zero)

\* while not is_power_2(degree): cs.append(0); degree += 1
FftPad ==
    /\ pc = "fft_while"
    /\ ~is_power_2(degree)
    /\ arg' = Pad(arg)
    /\ degree' = degree + 1
    /\ UNCHANGED <<pc, op, arg0, stack, result, err, prev, depth, steps>>

Raise(e) ==
    /\ pc' = "failed"
    /\ err' = e
    /\ stack' = <<>>
    /\ UNCHANGED <<op, arg, arg0, degree, result, prev, depth, steps>>

\* w = math.e ** (2 * math.pi * 1j / degree) with degree = 0.
FftRootFail ==
    /\ pc = "fft_while"
    /\ is_power_2(degree)
    /\ degree = 0
    /\ Raise("ZeroDivisionError")

\* w = math.e ** (2 * math.pi * 1j / degree); return _fft(cs, w)
FftKernel ==
    /\ pc = "fft_while"
    /\ is_power_2(degree)
    /\ degree # 0
    /\ stack' = <<Frame(arg, Omega(degree, 1))>>
    /\ pc' = "kernel"
    /\ UNCHANGED <<op, arg, arg0, degree, result, err, prev, depth, steps>>

(***************************************************************************)
(* ifft                                                                    *)
(***************************************************************************)

CallIfft(ys) ==
    /\ pc = "idle"
    /\ Enter("ifft", ys, "ifft_assert")
    /\ UNCHANGED <<stack, prev>>

\* The caller feeds the spectrum fft returned back into ifft.
CallIfftOnResult ==
    /\ pc = "done"
    /\ op = "fft"
    /\ prev = NoCall
    /\ Enter("ifft", result, "ifft_assert")
    /\ UNCHANGED stack
    /\ prev' = [op |-> op, arg0 |-> arg0, result |-> result]

\* assert is_power_2(degree), 'number of points must be a power of 2'
IfftAssertFail ==
    /\ pc = "ifft_assert"
    /\ ~is_power_2(degree)
    /\ Raise("AssertionError")

IfftAssertPass ==
    /\ pc = "ifft_assert"
    /\ is_power_2(degree)
    /\ pc' = "ifft_root"
    /\ UNCHANGED <<op, arg, arg0, degree, stack, result, err, prev, depth, steps>>

\* w = math.e ** (-2 * math.pi * 1j / degree) with degree = 0.
IfftRootFail ==
    /\ pc = "ifft_root"
    /\ degree = 0
    /\ Raise("ZeroDivisionError")

\* w = math.e ** (-2 * math.pi * 1j / degree); ... _fft(ys, w)
IfftKernel ==
    /\ pc = "ifft_root"
    /\ degree # 0
    /\ stack' = <<Frame(arg, Omega(degree, -1))>>
    /\ pc' = "kernel"
    /\ UNCHANGED <<op, arg, arg0, degree, result, err, prev, depth, steps>>

(***************************************************************************)
(* _fft                                                                    *)
(***************************************************************************)

\* A caller invokes the kernel itself.
CallKernel(p, w) ==
    /\ pc = "idle"
    /\ Enter("_fft", p, "kernel")
    /\ stack' = <<Frame(p, w)>>
    /\ UNCHANGED prev

\* What the caller of the outermost _fft does with the value it returns:
\* fft and a direct caller return it, ifft divides every entry by degree.
Finish(val) ==
    IF op = "ifft" THEN Scale(val, degree) ELSE val

\* The activation on top of the stack returns val to its caller.  A parent
\* waiting for q_even stores it and goes on to the second recursive call; a
\* parent waiting for q_odd stores it, allocates q = [0] * degree and starts
\* the combine loop at i = 0.
Return(val) ==
    LET rest == SubSeq(stack, 1, Len(stack) - 1)
    IN  IF rest = <<>>
        THEN /\ stack' = <<>>
             /\ result' = Finish(val)
             /\ pc' = "done"
        ELSE LET parent == rest[Len(rest)]
                 resumed ==
                     IF parent.pc = "wait_even"
                     THEN [parent EXCEPT !.q_even = val, !.pc = "call_odd"]
                     ELSE [parent EXCEPT !.q_odd = val, !.pc = "loop",
                                         !.q = Zeros(Len(parent.p)), !.i = 0]
             IN  /\ stack' = [rest EXCEPT ![Len(rest)] = resumed]
                 /\ UNCHANGED <<result, pc>>

Step ==
    /\ steps' = steps + 1
    /\ UNCHANGED <<op, arg, arg0, degree, err, prev>>

\* if degree == 1: return p
KernelBase ==
    /\ pc = "kernel"
    /\ Top.pc = "enter"
    /\ Len(Top.p) = 1
    /\ Return(Top.p)
    /\ Step
    /\ UNCHANGED depth

\* A recursive call: the caller waits in `waiting`, the callee starts on sub.
Recurse(waiting, sub) ==
    /\ Len(stack) < RecursionLimit
    /\ stack' = Append([stack EXCEPT ![Len(stack)].pc = waiting],
                       Frame(sub, ChildRoot(Top.w)))
    /\ depth' = Max(depth, Len(stack))
    /\ Step
    /\ UNCHANGED <<pc, result>>

\* q_even = _fft(p[::2], w)
KernelCallEven ==
    /\ pc = "kernel"
    /\ Top.pc = "enter"
    /\ Len(Top.p) # 1
    /\ Recurse("wait_even", Slice(Top.p, 0))

\* q_odd = _fft(p[1::2], w)
KernelCallOdd ==
    /\ pc = "kernel"
    /\ Top.pc = "call_odd"
    /\ Recurse("wait_odd", Slice(Top.p, 1))

\* A recursive call with the interpreter's stack exhausted.
KernelOverflow ==
    /\ pc = "kernel"
    /\ Top.pc \in {"enter", "call_odd"}
    /\ Len(Top.p) # 1
    /\ Len(stack) >= RecursionLimit
    /\ Raise("RecursionError")

\* One iteration of: for i in range(half_degree): ...
KernelLoop ==
    /\ pc = "kernel"
    /\ Top.pc = "loop"
    /\ LET f == Top
           half_degree == Len(f.p) \div 2
       IN  /\ f.i < half_degree
           /\ stack' = [stack EXCEPT ![Len(stack)] =
                 [f EXCEPT !.q = Combine(f.q, f.q_even, f.q_odd, f.w, f.i, half_degree),
                           !.i = f.i + 1]]
    /\ Step
    /\ UNCHANGED <<pc, result, depth>>

\* The loop is exhausted: return q
KernelReturn ==
    /\ pc = "kernel"
    /\ Top.pc = "loop"
    /\ Top.i >= Len(Top.p) \div 2
    /\ Return(Top.q)
    /\ Step
    /\ UNCHANGED depth

Next ==
    \/ \E cs \in Inputs : CallFft(cs)
    \/ FftPad
    \/ FftRootFail
    \/ FftKernel
    \/ \E ys \in Inputs : CallIfft(ys)
    \/ CallIfftOnResult
    \/ IfftAssertFail
    \/ IfftAssertPass
    \/ IfftRootFail
    \/ IfftKernel
    \/ \E p \in Inputs, w \in KernelRoots : CallKernel(p, w)
    \/ KernelBase
    \/ KernelCallEven
    \/ KernelCallOdd
    \/ KernelOverflow
    \/ KernelLoop
    \/ KernelReturn

Spec == Init /\ [][Next]_vars

(***************************************************************************)
(* Reference notions the properties are stated with                        *)
(***************************************************************************)

\* n is a power of two: 1, 2, 4, 8, ...
IsPow2(n) == \E k \in 0..n : 2^k = n

\* The exponent of a power of two.
Log2(n) == CHOOSE k \in 0..n : 2^k = n

\* The smallest power of two that is at least n, for n >= 1.
SmallestPow2AtLeast(n) ==
    CHOOSE m \in n..(2 * n) : IsPow2(m) /\ \A l \in n..(m - 1) : ~IsPow2(l)

\* The sum of xs[j] * u^(j*k) over the 0-based indices j >= from, where u is
\* the principal Len(xs)-th root of unity.
RECURSIVE DirectSum(_, _, _)
DirectSum(xs, k, from) ==
    IF from >= Len(xs) THEN Zero
    ELSE Add(Mul(xs[from + 1], Unit((Order \div Len(xs)) * from * k)),
             DirectSum(xs, k, from + 1))

\* The polynomial with coefficients cs (ascending degree) at every
\* Len(cs)-th root of unity.
Dft(cs) == Tuple([k \in 1..Len(cs) |-> DirectSum(cs, k - 1, 0)], Len(cs))

\* The textbook radix-2 kernel: as _fft, but the recursive calls get w^2.
RECURSIVE TextbookFft(_, _)
TextbookFft(p, w) ==
    IF Len(p) = 1 THEN p
    ELSE LET q_even == TextbookFft(Slice(p, 0), Mul(w, w))
             q_odd == TextbookFft(Slice(p, 1), Mul(w, w))
             half == Len(p) \div 2
         IN  Tuple([k \in 1..Len(p) |->
                       IF k <= half
                       THEN Add(q_even[k], Mul(Pow(w, k - 1), q_odd[k]))
                       ELSE Sub(q_even[k - half], Mul(Pow(w, k - half - 1), q_odd[k - half]))],
                   Len(p))

\* Steps _fft takes on a power-of-two length n: one per length-1 call, three
\* per longer call (two calls, one return) and one per loop iteration.
StepBound(n) == n + 3 * (n - 1) + (n \div 2) * Log2(n)

FftReturned == pc = "done" /\ op = "fft"

\* The activation on top of the stack stands at a line of _fft that one of
\* the kernel's steps executes (it is not waiting for a callee that is gone).
KernelCanStep ==
    /\ stack # <<>>
    /\ \/ Top.pc = "enter"
       \/ Top.pc = "call_odd"
       \/ Top.pc = "loop" /\ Top.i <= Len(Top.p) \div 2

(***************************************************************************)
(* Properties                                                              *)
(***************************************************************************)

\* C1: when fft returns on a coefficient sequence P whose length N is a power
\* of two, entry k of the result is the direct sum of P[j] * w^(j*k), w the
\* principal N-th root of unity, for every k in [0, N).
EvaluationCorrect ==
    (FftReturned /\ IsPow2(Len(arg0))) => result = Dft(arg0)

\* C2: when ifft returns on the spectrum that fft returned for a sequence P of
\* power-of-two length, the result is P, entry by entry.
RoundTrip ==
    (pc = "done" /\ op = "ifft" /\ prev.op = "fft" /\ IsPow2(Len(prev.arg0)))
        => result = prev.arg0

InverseRejects ==
    (op = "ifft" /\ Len(arg0) >= 1 /\ ~IsPow2(Len(arg0))) =>
        /\ pc \in {"ifft_assert", "failed"}
        /\ pc = "failed" => err = "AssertionError"
        /\ stack = <<>>
        /\ steps = 0
        /\ arg = arg0

InverseRejectsWitness ==
    /\ op = "ifft" /\ pc = "failed" /\ err = "AssertionError"
    /\ Len(arg0) = 6

FourThenZeros == <<Cx(4, 0), Zero, Zero, Zero>>

\* C5 (as amended): ifft on the samples [4, 0, 0, 0] returns [1, 1, 1, 1].
InterpolateFour ==
    (pc = "done" /\ op = "ifft" /\ arg0 = FourThenZeros)
        => result = <<One, One, One, One>>

\* C5 (as claimed): ifft on the samples [4, 0, 0, 0] returns [4, 0, 0, 0].
InterpolateFourAsClaimed ==
    (pc = "done" /\ op = "ifft" /\ arg0 = FourThenZeros)
        => result = FourThenZeros

InterpolateFourWitness ==
    pc = "done" /\ op = "ifft" /\ arg0 = FourThenZeros /\ Len(result) = 4

\* C6: the kernel, called on a sequence whose length is not a power of two,
\* never returns a result.
KernelFailsFast ==
    (op = "_fft" /\ ~IsPow2(Len(arg0))) => pc # "done"

\* C7: once fft or ifft has returned or failed, the caller's sequence is what
\* it was when the call was made.
InputsNeverMutated ==
    (op \in {"fft", "ifft"} /\ pc \in {"done", "failed"}) => arg = arg0

\* C8: fft and ifft fail only at an explicit precondition check.
FailureTaxonomy ==
    (op \in {"fft", "ifft"} /\ pc = "failed") => err = "AssertionError"

\* C9: an activation of _fft on a power-of-two length that has finished its
\* combine loop holds, in q, what the textbook kernel returns for the same
\* sequence and root.
KernelMatchesTextbook ==
    (pc = "kernel" /\ Top.pc = "loop" /\ Top.i >= Len(Top.p) \div 2 /\ IsPow2(Len(Top.p)))
        => Top.q = TextbookFft(Top.p, Top.w)

\* C10: on a power-of-two length N the kernel terminates (it is never stuck
\* before it returns, never exhausts the stack, and takes a bounded number of
\* steps), every recursive call gets half its caller's sequence, the nesting
\* of recursive calls reaches exactly log2(N), and the result has length N; a
\* length-1 sequence comes back unchanged with no recursive call.
KernelTerminates ==
    /\ (pc = "kernel" /\ IsPow2(Len(stack[1].p))) =>
          LET N == Len(stack[1].p)
          IN  /\ \A k \in 2..Len(stack) : 2 * Len(stack[k].p) = Len(stack[k - 1].p)
              /\ Len(stack) - 1 <= depth
              /\ depth <= Log2(N)
              /\ steps < StepBound(N)
              /\ KernelCanStep
    /\ (pc = "done" /\ IsPow2(Len(arg))) =>
          LET N == Len(arg)
          IN  /\ depth = Log2(N)
              /\ Len(result) = N
              /\ steps = StepBound(N)
              /\ N = 1 => result = arg
    /\ (pc = "failed" /\ err = "RecursionError") => ~IsPow2(Len(arg))

KernelTerminatesWitness ==
    pc = "done" /\ op = "_fft" /\ Len(arg) = 8 /\ depth = 3 /\ Len(result) = 8

====
